---- MODULE Spec2Model ----
(***************************************************************************)
(* Job execution and run-history pipeline of fouchger_homelab.             *)
(*                                                                         *)
(*   domain/jobs.py           Job, JobResult                               *)
(*   domain/history_store.py  HistoryStore (SQLite table "runs")           *)
(*   domain/direct_runner.py  DirectRunner.execute                         *)
(*   app.py                   HomelabApp.submit_job/_run_job/on_job_finished*)
(*   web/server.py            run_tool                                     *)
(*                                                                         *)
(* Two specifications:                                                     *)
(*   Spec       the application: jobs are constructed by the screens and   *)
(*              the web handler, executed on worker threads and reported   *)
(*              back to the coordination thread.                           *)
(*   StoreSpec  the HistoryStore used as a library: any sequence of        *)
(*              record_started / record_finished / latest calls.           *)
(*                                                                         *)
(* Not modelled: argv, cwd and env of a Job (they decide, outside the      *)
(* program, whether the launch succeeds and which exit code the child      *)
(* returns: both are inputs here), started_at/finished_at of a JobResult   *)
(* (never stored or read back), and the bytes written to the log files.    *)
(***************************************************************************)
EXTENDS Integers, Sequences, FiniteSets, TLC

\* ------------------------------------------------------------------ bounds

\* Number of Job values constructed in one run of the application, and the
\* size of the run_id pool of the store.
MaxJobs == 2

\* ------------------------------------------------------------- input sets

JobIx == 1..MaxJobs

\* uuid.uuid4().hex of the i-th identifier drawn.
RunIdOf(i) == "r" \o ToString(i)

RunIds == {RunIdOf(i) : i \in JobIx}

\* datetime.utcnow() values: second of the minute and microsecond.
\* 9 and 10 differ in their number of decimal digits; microsecond 0 is the
\* value isoformat() leaves out.
Times == {[sec |-> 9, usec |-> 0], [sec |-> 9, usec |-> 5], [sec |-> 10, usec |-> 0]}

\* proc.wait(): 0, a nonzero exit status, and -signum for a child killed by
\* a signal: -1 is a child killed by signal 1 (SIGHUP), the same number as
\* the exit_code column of a row that record_started wrote.
ExitCodes == {-1, 0, 1}

\* Limits a caller of latest may pass: negative, zero, smaller than, equal to
\* and larger than the number of rows.
Limits == -1..MaxJobs

\* ------------------------------------------------------------ conversions

Min(a, b) == IF a <= b THEN a ELSE b

\* The character '.' as it compares with digits in SQLite's BINARY collation:
\* below every digit.
Dot == -1

\* datetime.isoformat(): fixed-width, zero-padded fields; the fractional part
\* is left out when microsecond is 0. The string is modelled by its varying
\* characters: the two digits of the seconds, then '.' and the microseconds.
IsoFormat(t) ==
    <<t.sec \div 10, t.sec % 10>> \o (IF t.usec = 0 THEN <<>> ELSE <<Dot, t.usec>>)

\* memcmp order of two TEXT values (SQLite BINARY collation): the first
\* differing character decides; a proper prefix is smaller.
TextLess(a, b) ==
    \E k \in 1..Len(b) :
        /\ \A i \in 1..(k - 1) : i <= Len(a) /\ a[i] = b[i]
        /\ (k > Len(a) \/ a[k] < b[k])

TextLeq(a, b) == a = b \/ TextLess(a, b)

RECURSIVE JoinPath(_)
\* str(Path): the components joined by "/".
JoinPath(p) ==
    IF Len(p) = 0 THEN ""
    ELSE IF Len(p) = 1 THEN p[1]
    ELSE p[1] \o "/" \o JoinPath(Tail(p))

PathStr(p) == JoinPath(p)

\* -------------------------------------------------------------- data model

\* Job(name, argv, cwd): run_id and created_at are filled by the default
\* factories.
Job(name, rid, at) == [name |-> name, run_id |-> rid, created_at |-> at]

JobResult(rid, code, out, err) ==
    [run_id |-> rid, exit_code |-> code, stdout_path |-> out, stderr_path |-> err]

RunRecord(row) ==
    [run_id |-> row.run_id, created_at_utc |-> row.created_at_utc,
     job_name |-> row.job_name, status |-> row.status,
     exit_code |-> row.exit_code,
     stdout_path |-> row.stdout_path, stderr_path |-> row.stderr_path]

\* ----------------------------------------------------------- HistoryStore

\* The table is the sequence of its rows in rowid order.

RECURSIVE SelectSeqBy(_, _)
\* The rows of tbl whose run_id is not rid, in order.
SelectSeqBy(tbl, rid) ==
    IF tbl = <<>> THEN <<>>
    ELSE (IF Head(tbl).run_id = rid THEN <<>> ELSE <<Head(tbl)>>)
         \o SelectSeqBy(Tail(tbl), rid)

HasRow(tbl, rid) == \E i \in 1..Len(tbl) : tbl[i].run_id = rid

RowOf(tbl, rid) == tbl[CHOOSE i \in 1..Len(tbl) : tbl[i].run_id = rid]

\* Faulty variant of StartedRow: the exit code of a started row is 0.
StartedRowExitZero(job) ==
    [run_id |-> job.run_id, created_at_utc |-> IsoFormat(job.created_at),
     job_name |-> job.name, status |-> "running", exit_code |-> 0,
     stdout_path |-> "", stderr_path |-> ""]

\* The row record_started binds to its INSERT: running, -1, no log paths.
StartedRow(job) ==
    [run_id |-> job.run_id, created_at_utc |-> IsoFormat(job.created_at),
     job_name |-> job.name, status |-> "running", exit_code |-> -1,
     stdout_path |-> "", stderr_path |-> ""]

\* Faulty variant of RecordStarted: the insert is lost.
RecordStartedNothing(tbl, job) == tbl

\* A faulty variant of record_started: INSERT OR IGNORE, which keeps the row
\* of a run_id already present.
RecordStartedIgnore(tbl, job) ==
    IF HasRow(tbl, job.run_id) THEN tbl ELSE Append(tbl, StartedRow(job))

\* A faulty variant of record_started: a plain INSERT into a table without
\* the primary key, which adds a second row for a run_id already present.
RecordStartedNoReplace(tbl, job) == Append(tbl, StartedRow(job))

\* INSERT OR REPLACE INTO runs: the row with the same primary key, if any, is
\* deleted and the new row is inserted with a new rowid.
RecordStarted(tbl, job) == Append(SelectSeqBy(tbl, job.run_id), StartedRow(job))

\* Faulty variant of StatusOf: a negative exit code counts as success.
StatusOfSign(code) == IF code <= 0 THEN "success" ELSE "failed"

StatusOf(code) == IF code = 0 THEN "success" ELSE "failed"

\* Faulty variant of FinishedRow: the two log paths are bound in the wrong
\* order.
FinishedRowSwapped(row, result) ==
    [row EXCEPT !.status = StatusOf(result.exit_code),
                !.exit_code = result.exit_code,
                !.stdout_path = PathStr(result.stderr_path),
                !.stderr_path = PathStr(result.stdout_path)]

\* Faulty variant of FinishedRow: status and exit code are written, the two
\* log paths are left for a later statement.
FinishedRowStatusOnly(row, result) ==
    [row EXCEPT !.status = StatusOf(result.exit_code),
                !.exit_code = result.exit_code]

FinishedRow(row, result) ==
    [row EXCEPT !.status = StatusOf(result.exit_code),
                !.exit_code = result.exit_code,
                !.stdout_path = PathStr(result.stdout_path),
                !.stderr_path = PathStr(result.stderr_path)]

\* Faulty variant of RecordFinished: the WHERE clause is missing.
RecordFinishedAllRows(tbl, job, result) ==
    [i \in 1..Len(tbl) |-> FinishedRow(tbl[i], result)]

\* A faulty variant of record_finished: an upsert, which inserts a finished
\* row when no row has the run_id of the result.
RecordFinishedUpsert(tbl, job, result) ==
    IF HasRow(tbl, result.run_id)
    THEN [i \in 1..Len(tbl) |->
            IF tbl[i].run_id = result.run_id THEN FinishedRow(tbl[i], result)
            ELSE tbl[i]]
    ELSE Append(tbl, FinishedRow([StartedRow(job) EXCEPT !.run_id = result.run_id],
                                 result))

\* A faulty variant of record_finished: INSERT OR REPLACE of a whole row,
\* built from the job argument, in the place of the row of the run.
RecordFinishedReplace(tbl, job, result) ==
    [i \in 1..Len(tbl) |->
        IF tbl[i].run_id = result.run_id
        THEN FinishedRow([StartedRow(job) EXCEPT !.run_id = result.run_id], result)
        ELSE tbl[i]]

\* A faulty variant of record_finished: the row of the run is removed from
\* the table instead of being updated.
RecordFinishedDeletes(tbl, job, result) == SelectSeqBy(tbl, result.run_id)

\* UPDATE runs SET ... WHERE run_id = result.run_id: the job argument is not
\* read; zero rows are updated when no row has that run_id.
RecordFinished(tbl, job, result) ==
    [i \in 1..Len(tbl) |->
        IF tbl[i].run_id = result.run_id THEN FinishedRow(tbl[i], result)
        ELSE tbl[i]]

\* LIMIT n: the first n rows; a negative n is no limit (SQLite).
Take(s, n) == IF n < 0 THEN s ELSE SubSeq(s, 1, Min(n, Len(s)))

\* Faulty variant of Orders: ORDER BY created_at_utc ASC.
OrdersAscending(tbl) ==
    {p \in Permutations(1..Len(tbl)) :
        \A i, j \in 1..Len(tbl) :
            i < j => TextLeq(tbl[p[i]].created_at_utc, tbl[p[j]].created_at_utc)}

\* ORDER BY created_at_utc DESC: every order of the rows in which the TEXT
\* values do not increase; SQL leaves the order of equal values open.
Orders(tbl) ==
    {p \in Permutations(1..Len(tbl)) :
        \A i, j \in 1..Len(tbl) :
            i < j => TextLeq(tbl[p[j]].created_at_utc, tbl[p[i]].created_at_utc)}

\* The lists latest(limit) may return.
Latest(tbl, limit) ==
    {Take([i \in 1..Len(tbl) |-> RunRecord(tbl[p[i]])], limit) : p \in Orders(tbl)}


\* ------------------------------------------------------------ DirectRunner

\* Faulty variant of RunDir: every job writes into the runs root itself.
RunDirShared(job) == <<"runs">>

\* run_dir = runs_dir / job.run_id
RunDir(job) == <<"runs", job.run_id>>

StdoutPath(job) == RunDir(job) \o <<"stdout.log">>

StderrPath(job) == RunDir(job) \o <<"stderr.log">>

\* Faulty variant of ExecuteResult: the runner keeps the run_id of the first
\* job it ran and stamps every result with it.
ExecuteResultFirstId(job, code) ==
    JobResult(RunIdOf(1), code, StdoutPath(job), StderrPath(job))

\* The JobResult execute returns for a child that exited with code.
ExecuteResult(job, code) ==
    JobResult(job.run_id, code, StdoutPath(job), StderrPath(job))

\* ------------------------------------------------------------------- state

VARIABLES
    runs,       \* the table "runs" of history.db, rows in rowid order
    fs,         \* paths that exist under the runs directory
    job,        \* job[j]: the j-th Job constructed, <<>> before that
    origin,     \* origin[j]: "tui" (a screen's button) or "web" (POST /run)
    pc,         \* pc[j]: where the j-th job is in its lifecycle
    result,     \* result[j]: <<the JobResult execute returned>>, else <<>>
    inbox,      \* the App's message queue
    notes,      \* notifications raised by notify(), oldest first, each
                \* tagged with the run it was raised for
    logPanel,   \* lines written to the LogPanel
    app,        \* "running", or "crashed" after an unhandled handler error
    startCalls, \* startCalls[j]: record_started calls made for job j
    finCalls,   \* finCalls[j]: record_finished calls made with job j's result
    posted,     \* posted[j]: JobFinished messages posted for job j
    applied,    \* applied[rid]: <<result>> last written by record_finished to
                \* the row of rid and not replaced since, else <<>>
    lastLatest, \* <<[limit, records]>> when the last call made on the store
                \* was latest(limit) and returned records, else <<>>
    lastCall    \* <<[op, ..., had]>> when the last call made on the store by
                \* a caller of the library was a write or a construction:
                \* its name, the job or the run_id it was given, and whether
                \* a row of that run_id existed when it was made (for
                \* record_started also the status that row was in); else <<>>

vars == <<runs, fs, job, origin, pc, result, inbox, notes, logPanel, app,
          startCalls, finCalls, posted, applied, lastLatest, lastCall>>

appVars == <<fs, job, origin, pc, result, inbox, notes, logPanel, app,
             startCalls, finCalls, posted>>

Init ==
    /\ runs = <<>>
    /\ fs = {}
    /\ job = [j \in JobIx |-> <<>>]
    /\ origin = [j \in JobIx |-> "none"]
    /\ pc = [j \in JobIx |-> "new"]
    /\ result = [j \in JobIx |-> <<>>]
    /\ inbox = <<>>
    /\ notes = <<>>
    /\ logPanel = <<>>
    /\ app = "running"
    /\ startCalls = [j \in JobIx |-> 0]
    /\ finCalls = [j \in JobIx |-> 0]
    /\ posted = [j \in JobIx |-> 0]
    /\ applied = [r \in RunIds |-> <<>>]
    /\ lastLatest = <<>>
    /\ lastCall = <<>>

\* Jobs are constructed one after the other: j is the next index.
NextJob(j) == pc[j] = "new" /\ \A i \in JobIx : i < j => pc[i] # "new"

\* The index of the job a run_id was generated for.
IxOf(rid) == CHOOSE j \in JobIx : RunIdOf(j) = rid

\* A thread of the TUI process can take a step.
TuiAlive(j) == origin[j] = "tui" /\ app = "running"

Alive(j) == origin[j] = "web" \/ TuiAlive(j)

\* ---------------------------------------------------- store calls and ghosts

\* applied after record_started(job): the row of job.run_id is new.
AppliedStarted(ap, jb) == [ap EXCEPT ![jb.run_id] = <<>>]

\* applied after record_finished(job, res) on table tbl.
AppliedFinished(ap, tbl, res) ==
    IF HasRow(tbl, res.run_id) THEN [ap EXCEPT ![res.run_id] = <<res>>] ELSE ap

\* ------------------------------------------------- HomelabApp (app.py, TUI)

DevToolsJobName == "Dev tools: authentication (git + gh)"

NotifyText(jb, res) ==
    <<jb.name, IF res.exit_code = 0 THEN "Success" ELSE "Failed", res.exit_code>>

CompletedLine(jb, res) == <<"Completed", jb.name, res.run_id, res.exit_code>>

\* Faulty variant of SubmitJob: an error of record_started is swallowed and
\* the job is dispatched all the same.
SubmitJobSwallowsError(j) ==
    /\ app = "running"
    /\ NextJob(j)
    /\ \E at \in Times, ok \in BOOLEAN :
        LET jb == Job(DevToolsJobName, RunIdOf(j), at) IN
        /\ job' = [job EXCEPT ![j] = <<jb>>]
        /\ origin' = [origin EXCEPT ![j] = "tui"]
        /\ startCalls' = [startCalls EXCEPT ![j] = @ + 1]
        /\ runs' = IF ok THEN RecordStarted(runs, jb) ELSE runs
        /\ applied' = IF ok THEN AppliedStarted(applied, jb) ELSE applied
        /\ pc' = [pc EXCEPT ![j] = "dispatched"]
    /\ UNCHANGED <<fs, result, inbox, notes, logPanel, app, finCalls, posted,
                   lastLatest, lastCall>>

\* Faulty variant of SubmitJob: _run_job is called before record_started, so
\* the worker is started, and runs, also when record_started then raises.
SubmitJobDispatchesFirst(j) ==
    /\ app = "running"
    /\ NextJob(j)
    /\ \E at \in Times, ok \in BOOLEAN, crash \in BOOLEAN :
        LET jb == Job(DevToolsJobName, RunIdOf(j), at) IN
        /\ job' = [job EXCEPT ![j] = <<jb>>]
        /\ origin' = [origin EXCEPT ![j] = "tui"]
        /\ startCalls' = [startCalls EXCEPT ![j] = @ + 1]
        /\ IF ok
           THEN /\ ~crash
                /\ runs' = RecordStarted(runs, jb)
                /\ applied' = AppliedStarted(applied, jb)
                /\ pc' = [pc EXCEPT ![j] = "dispatched"]
                /\ app' = app
                /\ fs' = fs
           ELSE /\ runs' = runs
                /\ applied' = applied
                /\ pc' = [pc EXCEPT ![j] = "submit_failed"]
                /\ app' = IF crash THEN "crashed" ELSE "running"
                /\ fs' = fs \cup {PathStr(RunDir(jb)), PathStr(StdoutPath(jb)),
                                  PathStr(StderrPath(jb))}
    /\ UNCHANGED <<result, inbox, notes, logPanel, finCalls, posted, lastLatest, lastCall>>

\* Faulty variant of SubmitJob: the worker is declared exclusive=True, so
\* starting it cancels the workers of the group that are still busy.
SubmitJobExclusive(j) ==
    /\ app = "running"
    /\ NextJob(j)
    /\ \E at \in Times :
        LET jb == Job(DevToolsJobName, RunIdOf(j), at) IN
        /\ job' = [job EXCEPT ![j] = <<jb>>]
        /\ origin' = [origin EXCEPT ![j] = "tui"]
        /\ startCalls' = [startCalls EXCEPT ![j] = @ + 1]
        /\ runs' = RecordStarted(runs, jb)
        /\ applied' = AppliedStarted(applied, jb)
        /\ pc' = [i \in JobIx |->
                    IF i = j THEN "dispatched"
                    ELSE IF origin[i] = "tui"
                            /\ pc[i] \in {"dispatched", "child_running", "returned"}
                         THEN "cancelled"
                         ELSE pc[i]]
    /\ UNCHANGED <<fs, result, inbox, notes, logPanel, app, finCalls, posted,
                   lastLatest, lastCall>>

\* Faulty variant of SubmitJob: _run_job is a plain method, so the handler
\* itself runs execute to the end of the child before it posts JobFinished
\* and returns.
SubmitJobBlocks(j) ==
    /\ app = "running"
    /\ NextJob(j)
    /\ \E at \in Times, code \in ExitCodes :
        LET jb == Job(DevToolsJobName, RunIdOf(j), at)
            res == ExecuteResult(jb, code) IN
        /\ job' = [job EXCEPT ![j] = <<jb>>]
        /\ origin' = [origin EXCEPT ![j] = "tui"]
        /\ startCalls' = [startCalls EXCEPT ![j] = @ + 1]
        /\ runs' = RecordStarted(runs, jb)
        /\ applied' = AppliedStarted(applied, jb)
        /\ fs' = fs \cup {PathStr(RunDir(jb)), PathStr(StdoutPath(jb)),
                          PathStr(StderrPath(jb))}
        /\ result' = [result EXCEPT ![j] = <<res>>]
        /\ inbox' = Append(inbox, [kind |-> "JobFinished", job |-> jb,
                                   result |-> res])
        /\ posted' = [posted EXCEPT ![j] = @ + 1]
        /\ pc' = [pc EXCEPT ![j] = "posted"]
    /\ UNCHANGED <<notes, logPanel, app, finCalls, lastLatest, lastCall>>

\* on_button_pressed -> Job(...) -> submit_job(job): record_started, then
\* _run_job(job) starts the worker and returns. ok = FALSE: record_started
\* raises (sqlite3 error); the handler is left at line 161 and the error
\* reaches the framework, which keeps running or stops the app.
SubmitJob(j) ==
    /\ app = "running"
    /\ NextJob(j)
    /\ \E at \in Times, ok \in BOOLEAN, crash \in BOOLEAN :
        LET jb == Job(DevToolsJobName, RunIdOf(j), at) IN
        /\ job' = [job EXCEPT ![j] = <<jb>>]
        /\ origin' = [origin EXCEPT ![j] = "tui"]
        /\ startCalls' = [startCalls EXCEPT ![j] = @ + 1]
        /\ IF ok
           THEN /\ ~crash
                /\ runs' = RecordStarted(runs, jb)
                /\ applied' = AppliedStarted(applied, jb)
                /\ pc' = [pc EXCEPT ![j] = "dispatched"]
                /\ app' = app
           ELSE /\ runs' = runs
                /\ applied' = applied
                /\ pc' = [pc EXCEPT ![j] = "submit_failed"]
                /\ app' = IF crash THEN "crashed" ELSE "running"
    /\ UNCHANGED <<fs, result, inbox, notes, logPanel, finCalls, posted, lastLatest, lastCall>>

\* @work(thread=True) _run_job, first part, and DirectRunner.execute up to
\* Popen: mkdir, open both log files, launch. stage names the call that
\* raises, "ok" when none does. A raise ends the worker (exit_on_error=False)
\* or, for the web handler, comes out of the await.
Launch(j) ==
    /\ pc[j] = "dispatched"
    /\ Alive(j)
    /\ \E stage \in {"mkdir", "popen", "ok"} :
        LET jb == job[j][1] IN
        /\ fs' = IF stage = "mkdir" THEN fs
                 ELSE fs \cup {PathStr(RunDir(jb)), PathStr(StdoutPath(jb)),
                               PathStr(StderrPath(jb))}
        /\ pc' = [pc EXCEPT ![j] = IF stage = "ok" THEN "child_running"
                                   ELSE "launch_failed"]
    /\ UNCHANGED <<runs, job, origin, result, inbox, notes, logPanel, app,
                   startCalls, finCalls, posted, applied, lastLatest, lastCall>>

\* Faulty variant of ChildExit: the child is run with check=True, so a
\* nonzero exit code makes execute raise instead of returning a JobResult.
ChildExitRaisesOnFailure(j) ==
    /\ pc[j] = "child_running"
    /\ Alive(j)
    /\ \E code \in ExitCodes :
        IF code = 0
        THEN /\ result' = [result EXCEPT ![j] = <<ExecuteResult(job[j][1], code)>>]
             /\ pc' = [pc EXCEPT ![j] = "returned"]
        ELSE /\ result' = result
             /\ pc' = [pc EXCEPT ![j] = "launch_failed"]
    /\ UNCHANGED <<runs, fs, job, origin, inbox, notes, logPanel, app,
                   startCalls, finCalls, posted, applied, lastLatest, lastCall>>

\* proc.wait() returns the child's exit code and execute returns the
\* JobResult.
ChildExit(j) ==
    /\ pc[j] = "child_running"
    /\ Alive(j)
    /\ \E code \in ExitCodes :
        result' = [result EXCEPT ![j] = <<ExecuteResult(job[j][1], code)>>]
    /\ pc' = [pc EXCEPT ![j] = "returned"]
    /\ UNCHANGED <<runs, fs, job, origin, inbox, notes, logPanel, app,
                   startCalls, finCalls, posted, applied, lastLatest, lastCall>>

\* Faulty variant of PostJobFinished: the message is posted in a finally
\* block, also when execute raised.
PostJobFinishedInFinally(j) ==
    /\ pc[j] \in {"returned", "launch_failed"}
    /\ TuiAlive(j)
    /\ inbox' = Append(inbox, [kind |-> "JobFinished", job |-> job[j][1],
                               result |-> IF result[j] # <<>> THEN result[j][1]
                                          ELSE ExecuteResult(job[j][1], -1)])
    /\ posted' = [posted EXCEPT ![j] = @ + 1]
    /\ pc' = [pc EXCEPT ![j] = "posted"]
    /\ UNCHANGED <<runs, fs, job, origin, result, notes, logPanel, app,
                   startCalls, finCalls, applied, lastLatest, lastCall>>

\* Faulty variant of PostJobFinished: the worker posts the message twice.
PostJobFinishedAgain(j) ==
    /\ pc[j] = "returned"
    /\ TuiAlive(j)
    /\ posted[j] < 2
    /\ inbox' = Append(inbox, [kind |-> "JobFinished", job |-> job[j][1],
                               result |-> result[j][1]])
    /\ posted' = [posted EXCEPT ![j] = @ + 1]
    /\ UNCHANGED <<runs, fs, job, origin, pc, result, notes, logPanel, app,
                   startCalls, finCalls, applied, lastLatest, lastCall>>

\* Faulty variant of PostJobFinished: the worker itself calls
\* record_finished and notify before it posts the message.
PostJobFinishedRecords(j) ==
    /\ pc[j] = "returned"
    /\ TuiAlive(j)
    /\ runs' = RecordFinished(runs, job[j][1], result[j][1])
    /\ applied' = AppliedFinished(applied, runs, result[j][1])
    /\ notes' = Append(notes, [run |-> result[j][1].run_id,
                               text |-> NotifyText(job[j][1], result[j][1])])
    /\ inbox' = Append(inbox, [kind |-> "JobFinished", job |-> job[j][1],
                               result |-> result[j][1]])
    /\ posted' = [posted EXCEPT ![j] = @ + 1]
    /\ pc' = [pc EXCEPT ![j] = "posted"]
    /\ UNCHANGED <<fs, job, origin, result, logPanel, app,
                   startCalls, finCalls, lastLatest, lastCall>>

\* Faulty variant of PostJobFinished: the worker ends without posting the
\* message.
PostJobFinishedDropped(j) ==
    /\ pc[j] = "returned"
    /\ TuiAlive(j)
    /\ pc' = [pc EXCEPT ![j] = "posted"]
    /\ UNCHANGED <<runs, fs, job, origin, result, inbox, notes, logPanel, app,
                   startCalls, finCalls, posted, applied, lastLatest, lastCall>>

\* _run_job, second part: post_message(JobFinished(job, result)) from the
\* worker thread; the worker ends.
PostJobFinished(j) ==
    /\ pc[j] = "returned"
    /\ TuiAlive(j)
    /\ inbox' = Append(inbox, [kind |-> "JobFinished", job |-> job[j][1],
                               result |-> result[j][1]])
    /\ posted' = [posted EXCEPT ![j] = @ + 1]
    /\ pc' = [pc EXCEPT ![j] = "posted"]
    /\ UNCHANGED <<runs, fs, job, origin, result, notes, logPanel, app,
                   startCalls, finCalls, applied, lastLatest, lastCall>>

\* Faulty variant of OnJobFinished: notify is called before record_finished,
\* so the notification is raised also when record_finished then raises.
OnJobFinishedNotifyFirst ==
    /\ app = "running"
    /\ inbox # <<>>
    /\ Head(inbox).kind = "JobFinished"
    /\ LET m == Head(inbox)
           j == IxOf(m.result.run_id) IN
       \E ok \in BOOLEAN, crash \in BOOLEAN :
        /\ finCalls' = [finCalls EXCEPT ![j] = @ + 1]
        /\ notes' = Append(notes, [run |-> m.result.run_id,
                                   text |-> NotifyText(m.job, m.result)])
        /\ IF ok
           THEN /\ ~crash
                /\ runs' = RecordFinished(runs, m.job, m.result)
                /\ applied' = AppliedFinished(applied, runs, m.result)
                /\ inbox' = Append(Tail(inbox),
                       [kind |-> "LogLine", text |-> CompletedLine(m.job, m.result)])
                /\ pc' = [pc EXCEPT ![j] = "terminal"]
                /\ app' = app
           ELSE /\ runs' = runs
                /\ applied' = applied
                /\ inbox' = Tail(inbox)
                /\ pc' = [pc EXCEPT ![j] = "finish_failed"]
                /\ app' = IF crash THEN "crashed" ELSE "running"
    /\ UNCHANGED <<fs, job, origin, result, logPanel, startCalls, posted, lastLatest, lastCall>>

\* on_job_finished(message), on the coordination thread: record_finished,
\* notify, post_message(LogLine). ok = FALSE: record_finished raises; the
\* handler is left at line 170, before notify and the log line, and the error
\* reaches the framework, which keeps running or stops the app.
OnJobFinished ==
    /\ app = "running"
    /\ inbox # <<>>
    /\ Head(inbox).kind = "JobFinished"
    /\ LET m == Head(inbox)
           j == IxOf(m.result.run_id) IN
       \E ok \in BOOLEAN, crash \in BOOLEAN :
        /\ finCalls' = [finCalls EXCEPT ![j] = @ + 1]
        /\ IF ok
           THEN /\ ~crash
                /\ runs' = RecordFinished(runs, m.job, m.result)
                /\ applied' = AppliedFinished(applied, runs, m.result)
                /\ notes' = Append(notes, [run |-> m.result.run_id,
                                               text |-> NotifyText(m.job, m.result)])
                /\ inbox' = Append(Tail(inbox),
                       [kind |-> "LogLine", text |-> CompletedLine(m.job, m.result)])
                /\ pc' = [pc EXCEPT ![j] = "terminal"]
                /\ app' = app
           ELSE /\ runs' = runs
                /\ applied' = applied
                /\ notes' = notes
                /\ inbox' = Tail(inbox)
                /\ pc' = [pc EXCEPT ![j] = "finish_failed"]
                /\ app' = IF crash THEN "crashed" ELSE "running"
    /\ UNCHANGED <<fs, job, origin, result, logPanel, startCalls, posted, lastLatest, lastCall>>

\* on_log_line(message): the line is written to the LogPanel.
OnLogLine ==
    /\ app = "running"
    /\ inbox # <<>>
    /\ Head(inbox).kind = "LogLine"
    /\ logPanel' = Append(logPanel, Head(inbox).text)
    /\ inbox' = Tail(inbox)
    /\ UNCHANGED <<runs, fs, job, origin, pc, result, notes, app,
                   startCalls, finCalls, posted, applied, lastLatest, lastCall>>

\* ------------------------------------------------- run_tool (web/server.py)

WebJobName == "dev-auth"

\* POST /run/{tool_key}, up to the await: Job(...), record_started, then
\* asyncio.to_thread(runner.execute, job). ok = FALSE: record_started raises
\* and the request ends with an error response.
RunToolBegin(j) ==
    /\ NextJob(j)
    /\ \E at \in Times, ok \in BOOLEAN :
        LET jb == Job(WebJobName, RunIdOf(j), at) IN
        /\ job' = [job EXCEPT ![j] = <<jb>>]
        /\ origin' = [origin EXCEPT ![j] = "web"]
        /\ startCalls' = [startCalls EXCEPT ![j] = @ + 1]
        /\ runs' = IF ok THEN RecordStarted(runs, jb) ELSE runs
        /\ applied' = IF ok THEN AppliedStarted(applied, jb) ELSE applied
        /\ pc' = [pc EXCEPT ![j] = IF ok THEN "dispatched" ELSE "submit_failed"]
    /\ UNCHANGED <<fs, result, inbox, notes, logPanel, app, finCalls, posted,
                   lastLatest, lastCall>>

\* run_tool after the await: record_finished(job, result) and the redirect.
RunToolResume(j) ==
    /\ pc[j] = "returned"
    /\ origin[j] = "web"
    /\ \E ok \in BOOLEAN :
        /\ runs' = IF ok THEN RecordFinished(runs, job[j][1], result[j][1]) ELSE runs
        /\ applied' = IF ok THEN AppliedFinished(applied, runs, result[j][1])
                      ELSE applied
        /\ pc' = [pc EXCEPT ![j] = IF ok THEN "terminal" ELSE "finish_failed"]
    /\ finCalls' = [finCalls EXCEPT ![j] = @ + 1]
    /\ UNCHANGED <<fs, job, origin, result, inbox, notes, logPanel, app,
                   startCalls, posted, lastLatest, lastCall>>

Next ==
    \/ \E j \in JobIx : SubmitJob(j)
    \/ \E j \in JobIx : RunToolBegin(j)
    \/ \E j \in JobIx : Launch(j)
    \/ \E j \in JobIx : ChildExit(j)
    \/ \E j \in JobIx : PostJobFinished(j)
    \/ \E j \in JobIx : RunToolResume(j)
    \/ OnJobFinished
    \/ OnLogLine

Spec == Init /\ [][Next]_vars

\* Fair scheduling of the worker threads and of the coordination thread: a
\* worker whose execute has returned gets to post its message, and the
\* message loop of a running app handles the message at the head of its
\* queue. Nothing is assumed about buttons being pressed, children being
\* launched or children terminating.
Fairness ==
    /\ \A j \in JobIx : WF_vars(PostJobFinished(j))
    /\ WF_vars(OnJobFinished)
    /\ WF_vars(OnLogLine)

\* The steps of the TUI process: its handlers and its workers.
TuiNext ==
    \/ \E j \in JobIx : SubmitJob(j)
    \/ \E j \in JobIx : Launch(j)
    \/ \E j \in JobIx : ChildExit(j)
    \/ \E j \in JobIx : PostJobFinished(j)
    \/ OnJobFinished
    \/ OnLogLine

\* The TUI process on its own, fairly scheduled.
LiveSpec == Init /\ [][TuiNext]_vars /\ Fairness

\* ------------------------------------------- HistoryStore used as a library

\* A faulty variant of _init: the schema is created anew on every start.
InitSchemaDropCreate(exists, tbl) == <<>>

\* HistoryStore._init: CREATE TABLE IF NOT EXISTS runs. A table that exists
\* is left as it is, with its rows; otherwise an empty table is created.
InitSchema(exists, tbl) == IF exists THEN tbl ELSE <<>>

\* HistoryStore(db_path) constructed again on the database file of an earlier
\* instance, as at every start of the TUI or of the web server. The instance
\* holds the path only, so the rows in the file are all the state there is.
ApiConstruct ==
    /\ runs' = InitSchema(TRUE, runs)
    /\ lastCall' = <<[op |-> "init"]>>
    /\ lastLatest' = <<>>
    /\ UNCHANGED applied
    /\ UNCHANGED appVars

\* record_started(job) for any Job value.
ApiRecordStarted ==
    /\ \E rid \in RunIds, at \in Times :
        LET jb == Job(WebJobName, rid, at) IN
        /\ runs' = RecordStarted(runs, jb)
        /\ applied' = AppliedStarted(applied, jb)
        /\ lastCall' = <<[op |-> "record_started", job |-> jb,
                          had |-> HasRow(runs, rid),
                          was |-> IF HasRow(runs, rid)
                                  THEN RowOf(runs, rid).status ELSE ""]>>
    /\ lastLatest' = <<>>
    /\ UNCHANGED appVars

\* record_finished(job, result) for any JobResult: the result need not be
\* that of the job, nor of a job that was recorded. The job argument is not
\* read by record_finished, so one Job stands for all: it is the job of the
\* result when rrid is its run_id and another job otherwise.
ApiRecordFinished ==
    /\ \E rrid \in RunIds, code \in ExitCodes :
        LET at == CHOOSE t \in Times : TRUE
            jb == Job(WebJobName, RunIdOf(1), at)
            res == ExecuteResult(Job(WebJobName, rrid, at), code) IN
        /\ runs' = RecordFinished(runs, jb, res)
        /\ applied' = AppliedFinished(applied, runs, res)
        /\ lastCall' = <<[op |-> "record_finished", run_id |-> rrid,
                          had |-> HasRow(runs, rrid)]>>
    /\ lastLatest' = <<>>
    /\ UNCHANGED appVars

\* A faulty variant of latest: the rows beyond the limit are pruned from the
\* table.
ApiLatestPrunes ==
    /\ \E limit \in Limits :
        \E recs \in Latest(runs, limit) :
            /\ lastLatest' = <<[limit |-> limit, records |-> recs]>>
            /\ runs' = Take(runs, limit)
    /\ lastCall' = <<>>
    /\ UNCHANGED applied
    /\ UNCHANGED appVars

\* latest(limit) for any limit.
ApiLatest ==
    /\ \E limit \in Limits :
        \E recs \in Latest(runs, limit) :
            lastLatest' = <<[limit |-> limit, records |-> recs]>>
    /\ lastCall' = <<>>
    /\ UNCHANGED <<runs, applied>>
    /\ UNCHANGED appVars

StoreNext == ApiConstruct \/ ApiRecordStarted \/ ApiRecordFinished \/ ApiLatest

StoreSpec == Init /\ [][StoreNext]_vars

\* ================================================================= claims

Constructed(j) == pc[j] # "new"

\* record_started succeeded for job j.
Recorded(j) == pc[j] \notin {"new", "submit_failed"}

\* The child process of job j was started.
Launched(j) ==
    pc[j] \in {"child_running", "returned", "posted", "terminal", "finish_failed"}

\* The child process of job j has terminated and execute has returned.
Terminated(j) == pc[j] \in {"returned", "posted", "terminal", "finish_failed"}

RowOfJob(j) == RowOf(runs, RunIdOf(j))

\* C1: whenever record_finished is called for a job's run_id, record_started
\* has been called for it before and, at the moment of the call, the row of
\* that run_id exists with status "running"; under every interleaving of the
\* workers and the coordination thread.
C1_StartedBeforeFinished ==
    [][\A j \in JobIx :
        finCalls'[j] # finCalls[j] =>
            /\ startCalls[j] > 0
            /\ HasRow(runs, RunIdOf(j))
            /\ RowOfJob(j).status = "running"]_vars

\* C1 witness: record_finished has been applied to a job's row while another
\* job, submitted earlier, is still executing.
C1_Witness ==
    \E i, j \in JobIx :
        /\ i < j
        /\ pc[i] = "child_running"
        /\ pc[j] = "terminal"
        /\ finCalls[j] = 1
        /\ RowOfJob(j).status # "running"

\* C2: record_finished is called at most once per run_id, the worker posts at
\* most one JobFinished per submit_job call, and no second record_finished
\* call follows a first one, for any number of concurrent jobs.
C2_FinishedAtMostOnce ==
    \A j \in JobIx :
        /\ finCalls[j] <= 1
        /\ posted[j] <= 1
        /\ startCalls[j] <= 1
        /\ finCalls[j] <= posted[j] + (IF origin[j] = "web" THEN 1 ELSE 0)

\* C2 witness: every job was submitted through submit_job, and each one's
\* JobFinished was posted once and handled once.
C2_Witness ==
    \A j \in JobIx : origin[j] = "tui" /\ posted[j] = 1 /\ finCalls[j] = 1

\* C3: a job's child process is launched only after record_started has
\* written its row, and record_finished is called only after the child has
\* terminated: while the child runs the row exists with status "running".
C3_StartedBeforeLaunchFinishedAfterExit ==
    \A j \in JobIx :
        /\ (pc[j] \in {"dispatched", "launch_failed"} \/ Launched(j)) =>
               startCalls[j] = 1 /\ HasRow(runs, RunIdOf(j))
        /\ (pc[j] \in {"dispatched", "child_running", "returned", "posted"}) =>
               RowOfJob(j) = StartedRow(job[j][1])
        /\ finCalls[j] > 0 => Terminated(j) /\ result[j] # <<>>
        /\ ~Terminated(j) => finCalls[j] = 0 /\ result[j] = <<>>

\* C3 witness: a job of the TUI and a job of the web handler both have their
\* child running, each with its "running" row in the store.
C3_Witness ==
    \E i, j \in JobIx :
        /\ origin[i] = "tui" /\ origin[j] = "web"
        /\ pc[i] = "child_running" /\ pc[j] = "child_running"
        /\ RowOfJob(i).status = "running" /\ RowOfJob(j).status = "running"

\* Number of notifications raised for job j.
NotesFor(j) == Cardinality({k \in 1..Len(notes) : notes[k].run = RunIdOf(j)})

\* Number of "Completed ..." log lines produced for job j: posted and not yet
\* handled, or written to the LogPanel.
LogLinesFor(j) ==
    Cardinality({k \in 1..Len(inbox) :
        inbox[k].kind = "LogLine" /\ inbox[k].text[3] = RunIdOf(j)})
    + Cardinality({k \in 1..Len(logPanel) : logPanel[k][3] = RunIdOf(j)})

\* The run directory of the j-th job, as a string.
RunDirStr(j) == "runs/" \o RunIdOf(j)

\* C4: the jobs submitted have pairwise distinct run_ids and run directories,
\* the store holds one row per recorded job, and whatever the order in which
\* the jobs complete, the row of a completed job carries the status,
\* exit_code and log paths of that job's own result, while the row of a job
\* whose result was not recorded is still its own "running" row.
C4_DistinctRunsOwnResults ==
    /\ \A i, j \in JobIx :
        (i # j /\ Constructed(i) /\ Constructed(j)) =>
            /\ job[i][1].run_id # job[j][1].run_id
            /\ PathStr(RunDir(job[i][1])) # PathStr(RunDir(job[j][1]))
    /\ Len(runs) = Cardinality({j \in JobIx : Recorded(j)})
    /\ \A j \in JobIx : Recorded(j) => HasRow(runs, RunIdOf(j))
    /\ \A j \in JobIx :
        Launched(j) =>
            {RunDirStr(j), RunDirStr(j) \o "/stdout.log",
             RunDirStr(j) \o "/stderr.log"} \subseteq fs
    /\ \A j \in JobIx :
        pc[j] = "terminal" =>
            LET row == RowOfJob(j)
                res == result[j][1] IN
            /\ res.run_id = RunIdOf(j)
            /\ row.status = (IF res.exit_code = 0 THEN "success" ELSE "failed")
            /\ row.exit_code = res.exit_code
            /\ row.stdout_path = RunDirStr(j) \o "/stdout.log"
            /\ row.stderr_path = RunDirStr(j) \o "/stderr.log"
            /\ row.job_name = job[j][1].name
    /\ \A j \in JobIx :
        (Recorded(j) /\ pc[j] # "terminal") =>
            /\ RowOfJob(j).status = "running"
            /\ RowOfJob(j).exit_code = -1
            /\ RowOfJob(j).stdout_path = ""
            /\ RowOfJob(j).stderr_path = ""

\* C4 witness: all jobs were submitted through submit_job and have completed
\* with different exit codes, the later-submitted one first.
C4_Witness ==
    /\ \A j \in JobIx : origin[j] = "tui" /\ pc[j] = "terminal"
    /\ Len(notes) = MaxJobs
    /\ notes[1].run = RunIdOf(MaxJobs)
    /\ \A i, j \in JobIx : i # j => result[i][1].exit_code # result[j][1].exit_code

\* C5: once execute has raised a launch error for a job, no JobFinished is
\* posted or queued for it, record_finished is not called for its run_id, and
\* its row stays status "running" with exit_code -1 from then on.
C5_LaunchErrorLeavesRunning ==
    /\ [](\A j \in JobIx :
            pc[j] = "launch_failed" =>
                /\ posted[j] = 0
                /\ finCalls[j] = 0
                /\ result[j] = <<>>
                /\ \A k \in 1..Len(inbox) :
                       inbox[k].kind = "JobFinished" =>
                           inbox[k].job.run_id # RunIdOf(j)
                /\ HasRow(runs, RunIdOf(j))
                /\ RowOfJob(j).status = "running"
                /\ RowOfJob(j).exit_code = -1)
    /\ [][\A j \in JobIx :
            pc[j] = "launch_failed" => pc'[j] = "launch_failed"]_vars

\* C5 witness: Popen raised for one job (its run directory and log files
\* exist) and another job has since completed and been recorded.
C5_Witness ==
    \E i, j \in JobIx :
        /\ pc[i] = "launch_failed"
        /\ RunDirStr(i) \o "/stdout.log" \in fs
        /\ RowOfJob(i).status = "running"
        /\ pc[j] = "terminal"
        /\ i < j

\* The completion of job j has been handled: its JobFinished was taken off
\* the queue and on_job_finished ran to its end or raised.
Handled(j) == origin[j] = "tui" /\ pc[j] \in {"terminal", "finish_failed"}

\* C6 (the claim as stated): every job whose execute returned a JobResult
\* gets exactly one notification, with its success/failure and exit code, and
\* exactly one "Completed ..." log line: never two, and one of each once its
\* completion has been handled.
C6_ExactlyOneNotification ==
    \A j \in JobIx :
        origin[j] = "tui" =>
            /\ NotesFor(j) <= 1
            /\ LogLinesFor(j) <= 1
            /\ Handled(j) => NotesFor(j) = 1 /\ LogLinesFor(j) = 1

\* C7 (the claim as stated): when record_finished raises while the
\* coordinator handles a job's completion, the app keeps running and the
\* job's notification is shown.
C7_NotificationDespiteStoreFailure ==
    \A j \in JobIx :
        (origin[j] = "tui" /\ pc[j] = "finish_failed") =>
            /\ app = "running"
            /\ NotesFor(j) = 1

\* Chronological order of two datetimes.
TimeLeq(a, b) == a.sec < b.sec \/ (a.sec = b.sec /\ a.usec <= b.usec)

\* The datetime a created_at_utc text stands for.
TimeOfText(s) == CHOOSE t \in Times : IsoFormat(t) = s

\* C8: every row to which record_finished has been applied, and which was not
\* replaced since, has status "success" exactly when its exit_code is 0 and
\* status "failed" otherwise, negative exit codes included.
C8_StatusIffExitZero ==
    \A i \in 1..Len(runs) :
        applied[runs[i].run_id] # <<>> =>
            /\ runs[i].status = "success" <=> runs[i].exit_code = 0
            /\ runs[i].status = "failed" <=> runs[i].exit_code # 0

\* C8 witness: the store holds a finished row with a negative exit code and a
\* finished row with exit code 0.
C8_Witness ==
    \E i, k \in 1..Len(runs) :
        /\ applied[runs[i].run_id] # <<>> /\ applied[runs[k].run_id] # <<>>
        /\ runs[i].exit_code < 0 /\ runs[i].status = "failed"
        /\ runs[k].exit_code = 0 /\ runs[k].status = "success"

\* The records are rows of the table, no two for the same run_id, ordered by
\* created_at descending, and no row left out is more recent than one
\* returned.
SortedMostRecent(recs) ==
    /\ \A k \in 1..Len(recs) : \E i \in 1..Len(runs) : recs[k] = RunRecord(runs[i])
    /\ \A i, k \in 1..Len(recs) : i # k => recs[i].run_id # recs[k].run_id
    /\ \A i, k \in 1..Len(recs) :
        i < k => TimeLeq(TimeOfText(recs[k].created_at_utc),
                         TimeOfText(recs[i].created_at_utc))
    /\ \A i \in 1..Len(runs) :
        (\A k \in 1..Len(recs) : recs[k].run_id # runs[i].run_id) =>
            \A k \in 1..Len(recs) :
                TimeLeq(TimeOfText(runs[i].created_at_utc),
                        TimeOfText(recs[k].created_at_utc))

\* C9 (the claim as stated): for every limit n, latest(n) returns no more
\* than n records (none when n is negative), sorted by created_at
\* descending, the most recent ones.
C9_LatestAtMostLimit ==
    lastLatest # <<>> =>
        LET n == lastLatest[1].limit
            recs == lastLatest[1].records IN
        /\ n >= 0 => Len(recs) <= n
        /\ n < 0 => Len(recs) = 0
        /\ SortedMostRecent(recs)

\* C9 (amended): for every limit n >= 0, latest(n) returns no more than n
\* records, sorted by created_at descending, the most recent ones; for a
\* negative n it returns every row, sorted the same way.
C9_LatestBoundedSorted ==
    lastLatest # <<>> =>
        LET n == lastLatest[1].limit
            recs == lastLatest[1].records IN
        /\ n >= 0 => Len(recs) <= n
        /\ n < 0 => Len(recs) = Len(runs)
        /\ SortedMostRecent(recs)

\* C9 witness: latest(1) on a store of two or more rows returned the one row
\* with the latest created_at, leaving out an older row inserted after it.
C9_Witness ==
    /\ lastLatest # <<>>
    /\ lastLatest[1].limit = 1
    /\ Len(lastLatest[1].records) = 1
    /\ Len(runs) >= 2
    /\ lastLatest[1].records[1] = RunRecord(runs[1])
    /\ runs[2].created_at_utc # runs[1].created_at_utc

\* C10: a record latest returns for a run_id whose row was written by
\* record_finished(job, result) has the run_id and the exit_code of that
\* result and its stdout and stderr paths as strings.
C10_RoundTrip ==
    lastLatest # <<>> =>
        \A k \in 1..Len(lastLatest[1].records) :
            LET rec == lastLatest[1].records[k] IN
            applied[rec.run_id] # <<>> =>
                LET res == applied[rec.run_id][1] IN
                /\ rec.run_id = res.run_id
                /\ rec.exit_code = res.exit_code
                /\ rec.stdout_path = "runs/" \o res.run_id \o "/stdout.log"
                /\ rec.stderr_path = "runs/" \o res.run_id \o "/stderr.log"
                /\ rec.stdout_path = PathStr(res.stdout_path)
                /\ rec.stderr_path = PathStr(res.stderr_path)

\* C10 witness: latest returned a record of a finished row next to a record
\* of a row that is still running.
C10_Witness ==
    /\ lastLatest # <<>>
    /\ \E k, l \in 1..Len(lastLatest[1].records) :
        /\ applied[lastLatest[1].records[k].run_id] # <<>>
        /\ lastLatest[1].records[k].exit_code = 1
        /\ lastLatest[1].records[l].status = "running"

\* ---------------------------------------------------------------- C11..C20

\* The last call made on the store was op.
LastCallWas(op) == lastCall # <<>> /\ lastCall[1].op = op

\* The run_ids that have a row in tbl.
RunIdsIn(tbl) == {tbl[i].run_id : i \in 1..Len(tbl)}

\* The number of rows of tbl that carry run_id rid.
RowCount(tbl, rid) == Cardinality({i \in 1..Len(tbl) : tbl[i].run_id = rid})

\* C11: record_started is an idempotent upsert. After record_started(job),
\* whether or not a row of job.run_id existed, there is exactly one row of
\* that run_id, it is the started row of the job, and the rows of the other
\* run_ids are as they were; calling record_started(job) again leaves the
\* store equal to the store after the first call.
C11_RecordStartedIdempotent ==
    /\ [](LastCallWas("record_started") =>
            LET jb == lastCall[1].job IN
            /\ RowCount(runs, jb.run_id) = 1
            /\ RowOf(runs, jb.run_id) = StartedRow(jb)
            /\ RecordStarted(runs, jb) = runs)
    /\ [][(lastCall' # <<>> /\ lastCall'[1].op = "record_started") =>
            LET jb == lastCall'[1].job IN
            /\ SelectSeqBy(runs', jb.run_id) = SelectSeqBy(runs, jb.run_id)
            /\ (LastCallWas("record_started") /\ lastCall[1].job = jb)
                    => runs' = runs]_vars

\* record_started was called for a run_id that had a row, next to the
\* finished row of another run.
C11_Witness ==
    /\ LastCallWas("record_started")
    /\ lastCall[1].had
    /\ Len(runs) = MaxJobs
    /\ \E r \in RunIds : r # lastCall[1].job.run_id /\ applied[r] # <<>>

\* C12: record_finished with a result whose run_id has no row does not raise
\* and is a no-op: no row is created and every existing row stays as it was.
C12_FinishedWithoutRowIsNoOp ==
    [][(/\ lastCall' # <<>>
        /\ lastCall'[1].op = "record_finished"
        /\ ~HasRow(runs, lastCall'[1].run_id))
       => runs' = runs /\ applied' = applied]_vars

\* record_finished has returned from a call for a run_id without a row, on
\* a store that holds the finished row of another run.
C12_Witness ==
    /\ LastCallWas("record_finished")
    /\ ~lastCall[1].had
    /\ ~HasRow(runs, lastCall[1].run_id)
    /\ \E r \in RunIdsIn(runs) : applied[r] # <<>>

\* C13: no history row is ever deleted: over any sequence of constructions,
\* record_started, record_finished and latest calls, the set of run_ids that
\* have a row never loses a member.
C13_RunIdsNeverLost == [][RunIdsIn(runs) \subseteq RunIdsIn(runs')]_vars

\* latest has returned on a store on which record_started was called for
\* every run_id and record_finished updated a row: every run_id is present.
C13_Witness ==
    /\ lastLatest # <<>>
    /\ RunIdsIn(runs) = RunIds
    /\ \E r \in RunIds : applied[r] # <<>>

\* A record as record_started leaves a row.
WholeStarted(rec) ==
    /\ rec.status = "running"
    /\ rec.exit_code = -1
    /\ rec.stdout_path = ""
    /\ rec.stderr_path = ""

\* A record as record_finished(job, res) leaves a row: all four columns of
\* the UPDATE carry the values of res.
WholeFinished(rec, res) ==
    /\ rec.status = StatusOf(res.exit_code)
    /\ rec.exit_code = res.exit_code
    /\ rec.stdout_path = PathStr(res.stdout_path) /\ rec.stdout_path # ""
    /\ rec.stderr_path = PathStr(res.stderr_path) /\ rec.stderr_path # ""

C19_HistorySurvivesRestart ==
    /\ [][(lastCall' # <<>> /\ lastCall'[1].op = "init") => runs' = runs]_vars
    /\ [](LastCallWas("init") =>
            /\ Latest(runs, -1) # {}
            /\ \A recs \in Latest(runs, -1) :
                /\ Len(recs) = Len(runs)
                /\ \A i \in 1..Len(runs) :
                    \E k \in 1..Len(recs) : recs[k] = RunRecord(runs[i])
                /\ \A k \in 1..Len(recs) :
                    applied[recs[k].run_id] # <<>> =>
                        WholeFinished(recs[k], applied[recs[k].run_id][1]))

\* A HistoryStore was constructed on a database that holds a started row and
\* a finished row.
C19_Witness ==
    /\ LastCallWas("init")
    /\ Len(runs) = MaxJobs
    /\ \E r \in RunIdsIn(runs) : applied[r] # <<>>
    /\ \E r \in RunIdsIn(runs) : applied[r] = <<>>

\* C20: latest is read-only: for every limit and every store content, a call
\* of latest leaves the set of rows and every column of every row unchanged.
C20_LatestReadOnly ==
    [][lastLatest' # <<>> => (runs' = runs /\ applied' = applied)]_vars

\* latest(0) returned no record from a store that holds a started row and a
\* finished row.
C20_Witness ==
    /\ lastLatest # <<>>
    /\ lastLatest[1].limit = 0
    /\ lastLatest[1].records = <<>>
    /\ \E i, j \in 1..Len(runs) :
        runs[i].status = "running" /\ runs[j].status # "running"

\* The message the worker of job j posts.
JobFinishedOf(j) ==
    [kind |-> "JobFinished", job |-> job[j][1], result |-> result[j][1]]

\* Job j was submitted through the TUI and its worker has not ended.
WorkerBusy(j) ==
    origin[j] = "tui" /\ pc[j] \in {"dispatched", "child_running", "returned"}

\* C14: submit_job does not block on job completion: the step that handles
\* the submission ends after record_started and the dispatch, with execute
\* not yet begun (no run directory, no result, no message), and while a
\* job's worker is busy the coordination thread of a running app can take
\* the next submission and handle the message at the head of its queue.
C14_SubmitDoesNotBlock ==
    /\ [][\A j \in JobIx :
            (pc[j] = "new" /\ pc'[j] # "new" /\ origin'[j] = "tui") =>
                /\ pc'[j] \in {"dispatched", "submit_failed"}
                /\ fs' = fs /\ result' = result
                /\ inbox' = inbox /\ posted' = posted]_vars
    /\ []((app = "running" /\ \E j \in JobIx : WorkerBusy(j)) =>
            /\ \A k \in JobIx : NextJob(k) => ENABLED SubmitJob(k)
            /\ inbox # <<>> => ENABLED (OnJobFinished \/ OnLogLine))

\* The child of the first job is still running while the second job, which
\* was submitted after it, has been submitted, run and handled to the end.
C14_Witness ==
    /\ origin[1] = "tui" /\ pc[1] = "child_running"
    /\ origin[2] = "tui" /\ pc[2] = "terminal"
    /\ NotesFor(2) = 1

\* C15: execute runs on the worker and never on the coordination thread, and
\* the worker calls neither record_finished nor notify nor any UI code: a
\* step of the worker of a TUI job leaves the store, the notifications and
\* the LogPanel alone, its only effect on the coordinator is the one
\* JobFinished message it posts when execute has returned, and the steps
\* that create run files or produce a result are worker steps, which handle
\* no message.
C15_WorkerOnlyPosts ==
    [][/\ \A j \in JobIx :
            (WorkerBusy(j) /\ pc'[j] # pc[j]) =>
                /\ runs' = runs /\ applied' = applied
                /\ notes' = notes /\ logPanel' = logPanel
                /\ finCalls' = finCalls
                /\ IF pc[j] = "returned"
                   THEN /\ pc'[j] = "posted"
                        /\ inbox' = Append(inbox, JobFinishedOf(j))
                        /\ posted' = [posted EXCEPT ![j] = @ + 1]
                   ELSE inbox' = inbox /\ posted' = posted
       /\ (fs' # fs \/ result' # result) =>
            /\ \E j \in JobIx :
                pc[j] \in {"dispatched", "child_running"} /\ pc'[j] # pc[j]
            /\ inbox' = inbox /\ notes' = notes /\ logPanel' = logPanel
            /\ runs' = runs
       /\ \A j \in JobIx :
            (origin[j] = "tui" /\ finCalls'[j] # finCalls[j]) =>
                /\ inbox # <<>> /\ Head(inbox).kind = "JobFinished"
                /\ Head(inbox).result.run_id = RunIdOf(j)
                /\ pc[j] = "posted" /\ posted[j] = 1]_vars

\* The worker of a TUI job has posted its message and ended; the message is
\* in the queue, and the row, the notifications and the LogPanel are as the
\* submission left them.
C15_Witness ==
    \E j \in JobIx :
        /\ origin[j] = "tui" /\ pc[j] = "posted" /\ posted[j] = 1
        /\ \E k \in 1..Len(inbox) : inbox[k] = JobFinishedOf(j)
        /\ RowOfJob(j).status = "running"
        /\ NotesFor(j) = 0 /\ finCalls[j] = 0

\* The row of job j has left "running" for the status of its result.
RowLeftRunning(j) ==
    /\ HasRow(runs, RunIdOf(j))
    /\ RowOfJob(j).status \in {"success", "failed"}
    /\ RowOfJob(j).status = StatusOf(result[j][1].exit_code)

\* The application no longer runs as before: it has stopped, or the handler
\* of job j's message ended in an unhandled error of the store.
StoppedRunning(j) == app = "crashed" \/ pc[j] = "finish_failed"

\* C16: under fair scheduling of the workers and the coordination thread,
\* and while the application keeps running, every job submitted by
\* submit_job whose child was launched and has terminated eventually has its
\* JobFinished message handled and record_finished applied: its row leaves
\* "running" for "success" or "failed".
C16_CompletionEventuallyRecorded ==
    \A j \in JobIx :
        (origin[j] = "tui" /\ pc[j] = "returned")
            ~> (StoppedRunning(j) \/ (pc[j] = "terminal" /\ RowLeftRunning(j)))

\* Two jobs were submitted through the TUI, their children terminated, and
\* both rows have left "running", one for "success" and one for "failed".
C16_Witness ==
    /\ app = "running"
    /\ \E i, j \in JobIx :
        /\ origin[i] = "tui" /\ pc[i] = "terminal" /\ RowLeftRunning(i)
        /\ origin[j] = "tui" /\ pc[j] = "terminal" /\ RowLeftRunning(j)
        /\ RowOfJob(i).status = "success" /\ RowOfJob(j).status = "failed"

\* The files execute opens for writing for job j.
FilesOf(j) == {PathStr(StdoutPath(job[j][1])), PathStr(StderrPath(job[j][1]))}

\* The jobs constructed have pairwise distinct run_ids, run directories and
\* log files, the files of each under its own <runs_root>/<run_id>/.
RunFilesPartitioned ==
    \A i \in JobIx :
        Constructed(i) =>
            LET fi == FilesOf(i) IN
            /\ fi = {RunDirStr(i) \o "/stdout.log", RunDirStr(i) \o "/stderr.log"}
            /\ \A j \in JobIx :
                (i < j /\ Constructed(j)) =>
                    /\ job[i][1].run_id # job[j][1].run_id
                    /\ fi \cap FilesOf(j) = {}
                    /\ PathStr(RunDir(job[i][1])) # PathStr(RunDir(job[j][1]))

\* C17: the run output tree is partitioned by run_id: whenever a job is
\* constructed, the jobs there are have pairwise disjoint log files, each
\* under its own <runs_root>/<run_id>/, and the step in which execute
\* creates and truncates files touches the files of its own job only,
\* whatever the other jobs are doing.
C17_RunFilesDisjoint ==
    [][/\ job' # job => RunFilesPartitioned'
       /\ \A j \in JobIx :
            (pc[j] = "dispatched" /\ pc'[j] # pc[j]) =>
                /\ fs \subseteq fs'
                /\ fs' \ fs \subseteq FilesOf(j) \cup {PathStr(RunDir(job[j][1]))}
                /\ \A i \in JobIx :
                    (i # j /\ Constructed(i)) =>
                        (fs' \ fs) \cap (FilesOf(i) \cup {RunDirStr(i)}) = {}]_vars

\* Two children are running at the same time, each with its own two files.
C17_Witness ==
    /\ pc[1] = "child_running" /\ pc[2] = "child_running"
    /\ FilesOf(1) \cup FilesOf(2) \subseteq fs
    /\ Cardinality(FilesOf(1) \cup FilesOf(2)) = 4

\* ---------------------------------------------------------------- C21..C30

\* execute raised for job j, submitted through the TUI.
LaunchFailed(j) == origin[j] = "tui" /\ pc[j] = "launch_failed"

\* C21 (the claim as stated): a launch failure is never silently swallowed:
\* whenever execute raises for a submitted job, at least one log line or
\* notification for that job is eventually produced, unless the app stops.
C21_LaunchFailureReported ==
    \A j \in JobIx :
        LaunchFailed(j) ~> (app = "crashed" \/ NotesFor(j) + LogLinesFor(j) >= 1)

\* C22: a job failure is not an error: when the child terminates, with
\* whatever exit code, execute returns a JobResult that carries the code and
\* does not raise; a job whose result has a nonzero code and whose message
\* was handled has a row with status "failed" and that exit code; and a job
\* is never executed again: once dispatched, it is launched at most once and
\* is never dispatched a second time.
C22_FailureIsNotAnError ==
    /\ [](\A j \in JobIx :
            (pc[j] = "terminal" /\ result[j][1].exit_code # 0) =>
                /\ RowOfJob(j).status = "failed"
                /\ RowOfJob(j).exit_code = result[j][1].exit_code)
    /\ [][\A j \in JobIx :
            /\ (pc[j] = "child_running" /\ pc'[j] # pc[j]) =>
                    /\ pc'[j] = "returned"
                    /\ result'[j] # <<>>
                    /\ result'[j][1].exit_code \in ExitCodes
                    /\ result'[j][1].run_id = job[j][1].run_id
            /\ (pc'[j] = "dispatched" /\ pc[j] # "dispatched") => pc[j] = "new"
            /\ (pc'[j] = "child_running" /\ pc[j] # "child_running")
                    => pc[j] = "dispatched"
            /\ startCalls'[j] <= 1]_vars

\* A child exited with code 1: execute returned, the message was handled and
\* the row reads failed with exit code 1, after one execution.
C22_Witness ==
    \E j \in JobIx :
        /\ origin[j] = "tui" /\ pc[j] = "terminal" /\ posted[j] = 1
        /\ result[j][1].exit_code = 1
        /\ RowOfJob(j).status = "failed" /\ RowOfJob(j).exit_code = 1

\* C23 (the claim as stated): latest orders records with equal created_at
\* deterministically: on the store content and with the limit of a call
\* that has returned, every call of latest returns the same records in the
\* same order as that call did.
C23_LatestDeterministic ==
    lastLatest # <<>> =>
        \A recs \in Latest(runs, lastLatest[1].limit) :
            recs = lastLatest[1].records

\* C24: every JobResult carries the run_id of the Job it was produced from
\* and every JobFinished message pairs a job with its own result, so the
\* record_finished call made with the result of job j touches no row but
\* the one record_started created for job j.
C24_ResultPairsWithJob ==
    /\ [](/\ \A j \in JobIx :
                result[j] # <<>> => result[j][1].run_id = job[j][1].run_id
           /\ \A k \in 1..Len(inbox) :
                inbox[k].kind = "JobFinished" =>
                    /\ inbox[k].job.run_id = inbox[k].result.run_id
                    /\ \E i \in JobIx :
                        /\ result[i] # <<>>
                        /\ inbox[k].job = job[i][1]
                        /\ inbox[k].result = result[i][1])
    /\ [][\A j \in JobIx :
            finCalls'[j] # finCalls[j] =>
                /\ Len(runs') = Len(runs)
                /\ \A i \in 1..Len(runs) :
                    runs[i].run_id # job[j][1].run_id => runs'[i] = runs[i]
                /\ runs' # runs =>
                    /\ RowOf(runs', job[j][1].run_id)
                            = FinishedRow(StartedRow(job[j][1]), result[j][1])
                    /\ RowOf(runs, job[j][1].run_id) = StartedRow(job[j][1])]_vars

\* The second job's result was recorded in its own row while the first
\* job's message, with the first job's result, is still in the queue and the
\* first job's row still reads running.
C24_Witness ==
    /\ origin[1] = "tui" /\ pc[1] = "posted"
    /\ origin[2] = "tui" /\ pc[2] = "terminal"
    /\ applied[RunIdOf(2)] = <<result[2][1]>>
    /\ applied[RunIdOf(1)] = <<>>
    /\ RowOfJob(1).status = "running"
    /\ result[1][1].exit_code # result[2][1].exit_code

\* C25: on delivery of a JobFinished message the coordinator acts in a fixed
\* order, record_finished, then notify, then the log line: a job that has a
\* notification has had record_finished called and its row no longer reads
\* "running", a job that has a "Completed" log line has a notification, and
\* the step that raises the notification is the step that wrote the row.
C25_RecordThenNotifyThenLog ==
    /\ [](\A j \in JobIx :
            /\ NotesFor(j) >= 1 =>
                    /\ finCalls[j] >= 1
                    /\ HasRow(runs, RunIdOf(j))
                    /\ RowOfJob(j).status # "running"
                    /\ applied[RunIdOf(j)] = <<result[j][1]>>
            /\ LogLinesFor(j) >= 1 => NotesFor(j) >= 1)
    /\ [][notes' # notes =>
            /\ inbox # <<>> /\ Head(inbox).kind = "JobFinished"
            /\ runs' = RecordFinished(runs, Head(inbox).job, Head(inbox).result)
            /\ notes' = Append(notes, [run |-> Head(inbox).result.run_id,
                    text |-> NotifyText(Head(inbox).job, Head(inbox).result)])
            /\ inbox' = Append(Tail(inbox), [kind |-> "LogLine",
                    text |-> CompletedLine(Head(inbox).job, Head(inbox).result)])]_vars

\* The notification of a job is up and its log line is in the LogPanel; the
\* row reads failed with the exit code the notification and the line carry.
C25_Witness ==
    \E j \in JobIx :
        /\ NotesFor(j) = 1
        /\ RowOfJob(j).status = "failed"
        /\ \E k \in 1..Len(notes) :
            notes[k].run = RunIdOf(j) /\ notes[k].text[3] = RowOfJob(j).exit_code
        /\ \E k \in 1..Len(logPanel) :
            logPanel[k][3] = RunIdOf(j) /\ logPanel[k][4] = RowOfJob(j).exit_code

\* C26: jobs run concurrently and independently: the submission of a job
\* leaves every other job where it is (not cancelled, not restarted), with
\* its result, its row and its files; a job whose process is alive is never
\* kept from its next step by the other jobs; and in whatever order the jobs
\* finish, a job whose message was handled has its own result in its row.
C26_JobsIndependent ==
    /\ [][\A k \in JobIx :
            (pc[k] = "new" /\ pc'[k] # "new") =>
                /\ fs \subseteq fs'
                /\ \A j \in JobIx \ {k} :
                    /\ pc'[j] = pc[j] /\ job'[j] = job[j]
                    /\ result'[j] = result[j] /\ posted'[j] = posted[j]
                    /\ HasRow(runs, RunIdOf(j)) =>
                        /\ HasRow(runs', RunIdOf(j))
                        /\ RowOf(runs', RunIdOf(j)) = RowOf(runs, RunIdOf(j))]_vars
    /\ [](\A j \in JobIx :
            /\ (pc[j] = "dispatched" /\ Alive(j)) => ENABLED Launch(j)
            /\ (pc[j] = "child_running" /\ Alive(j)) => ENABLED ChildExit(j)
            /\ (pc[j] = "returned" /\ TuiAlive(j)) => ENABLED PostJobFinished(j)
            /\ pc[j] = "terminal" =>
                    RowOfJob(j) = FinishedRow(StartedRow(job[j][1]), result[j][1]))

\* Two jobs ran at the same time and finished against their submission
\* order: the LogPanel shows the second job completed before the first, and
\* each row carries its own job's exit code.
C26_Witness ==
    /\ origin[1] = "tui" /\ pc[1] = "terminal"
    /\ origin[2] = "tui" /\ pc[2] = "terminal"
    /\ Len(logPanel) = 2
    /\ logPanel[1][3] = RunIdOf(2) /\ logPanel[2][3] = RunIdOf(1)
    /\ RowOfJob(1).exit_code = 0 /\ RowOfJob(2).exit_code = 1

\* C27: every row of the store has status running, success or failed, and a
\* row with status running has exit_code -1 and empty stdout_path and
\* stderr_path.
C27_RowStatusInvariant ==
    \A i \in 1..Len(runs) :
        /\ runs[i].status \in {"running", "success", "failed"}
        /\ runs[i].status = "running" =>
                /\ runs[i].exit_code = -1
                /\ runs[i].stdout_path = ""
                /\ runs[i].stderr_path = ""

\* The store holds a running row next to a failed row whose exit code is
\* also -1 and whose log paths are set.
C27_Witness ==
    \E i, j \in 1..Len(runs) :
        /\ runs[i].status = "running"
        /\ runs[j].status = "failed" /\ runs[j].exit_code = -1
        /\ runs[j].stdout_path # "" /\ runs[j].stderr_path # ""

\* C28: record_started for a run_id whose row is finished replaces that row
\* wholesale: the row is the started row of the job given (status running,
\* exit_code -1, both log paths empty) and the outcome that was recorded is
\* gone; a terminal row is not protected.
C28_StartedResetsFinishedRow ==
    [][(/\ lastCall' # <<>>
        /\ lastCall'[1].op = "record_started"
        /\ HasRow(runs, lastCall'[1].job.run_id)
        /\ RowOf(runs, lastCall'[1].job.run_id).status # "running")
       => LET rid == lastCall'[1].job.run_id
              row == RowOf(runs', rid) IN
          /\ RowCount(runs', rid) = 1
          /\ row = StartedRow(lastCall'[1].job)
          /\ row.status = "running" /\ row.exit_code = -1
          /\ row.stdout_path = "" /\ row.stderr_path = ""
          /\ applied'[rid] = <<>>]_vars

\* record_started has been called for a run_id whose row read failed: the
\* row reads running again, without exit code and log paths.
C28_Witness ==
    /\ LastCallWas("record_started")
    /\ lastCall[1].was = "failed"
    /\ WholeStarted(RunRecord(RowOf(runs, lastCall[1].job.run_id)))
    /\ applied[lastCall[1].job.run_id] = <<>>

\* The run directory and the log files of the j-th job, as strings.
RunPathsOf(j) ==
    {RunDirStr(j), RunDirStr(j) \o "/stdout.log", RunDirStr(j) \o "/stderr.log"}

\* C29: if record_started raises inside submit_job, the job is never
\* dispatched: the step leaves the handler with nothing written, the job
\* stays where it is for ever, execute is not called for it (no result, no
\* run directory, no log file) and no JobFinished is posted for its run_id.
C29_FailedSubmitNeverDispatched ==
    /\ [](\A j \in JobIx :
            pc[j] = "submit_failed" =>
                /\ result[j] = <<>> /\ posted[j] = 0 /\ finCalls[j] = 0
                /\ ~HasRow(runs, RunIdOf(j))
                /\ \A k \in 1..Len(inbox) :
                    inbox[k].kind = "JobFinished" =>
                        inbox[k].job.run_id # RunIdOf(j))
    /\ [][\A j \in JobIx :
            /\ (pc[j] = "new" /\ pc'[j] = "submit_failed") =>
                    fs' = fs /\ inbox' = inbox /\ runs' = runs
            /\ pc[j] = "submit_failed" =>
                    /\ pc'[j] = "submit_failed"
                    /\ fs' # fs => (fs' \ fs) \cap RunPathsOf(j) = {}]_vars

\* record_started raised for the second job of a TUI that went on running:
\* the first job ran to the end and its files exist, the second has no row,
\* no files and no message.
C29_Witness ==
    /\ app = "running"
    /\ origin[1] = "tui" /\ pc[1] = "terminal"
    /\ origin[2] = "tui" /\ pc[2] = "submit_failed" /\ startCalls[2] = 1
    /\ RunPathsOf(1) \subseteq fs
    /\ RunPathsOf(2) \cap fs = {}
    /\ ~HasRow(runs, RunIdOf(2))

\* C30: record_finished changes only status, exit_code, stdout_path and
\* stderr_path of the row whose run_id is result.run_id: that row keeps its
\* run_id, created_at_utc and job_name, every other row keeps every column,
\* and no row is added, removed or moved.
C30_RecordFinishedFrame ==
    [][(lastCall' # <<>> /\ lastCall'[1].op = "record_finished") =>
        /\ Len(runs') = Len(runs)
        /\ \A i \in 1..Len(runs) :
            IF runs[i].run_id = lastCall'[1].run_id
            THEN /\ runs'[i].run_id = runs[i].run_id
                 /\ runs'[i].created_at_utc = runs[i].created_at_utc
                 /\ runs'[i].job_name = runs[i].job_name
            ELSE runs'[i] = runs[i]]_vars

\* record_finished has written the row of a run given together with the Job
\* of another run and another creation time; the row has its own creation
\* time, and the store holds a second row.
C30_Witness ==
    /\ LastCallWas("record_finished")
    /\ lastCall[1].had
    /\ lastCall[1].run_id # RunIdOf(1)
    /\ Len(runs) = MaxJobs
    /\ applied[lastCall[1].run_id] # <<>>
    /\ RowOf(runs, lastCall[1].run_id).created_at_utc
            # IsoFormat(CHOOSE t \in Times : TRUE)

====
